---- MODULE Spec2Model ----
(***************************************************************************)
(* A model of orders.py: the quantity partitioner split_int_quantity, the  *)
(* order generator generate_orders, and process_request with its three     *)
(* retry wrappers around the exchange client.                              *)
(*                                                                         *)
(* Numbers.  Python floats that hold prices, quantities and step sizes are *)
(* modelled as integers counting units of 1 / Scale, volumes and the       *)
(* average price as whole numbers, and every quotient is kept as an exact  *)
(* fraction until the code's own int() or round() is applied to it.  For   *)
(* the inputs enumerated here the double computation gives the same        *)
(* integers as the exact one (for split_int_quantity the two first differ  *)
(* at total = 30, num_of_parts = 22).                                      *)
(***************************************************************************)
EXTENDS Integers, Sequences, FiniteSets, TLC

VARIABLES
    entry,          \* which function the behaviour calls: "split", "generate", "process"
    pc,             \* control location
    req,            \* Request
    avg_price,      \* avg_price in process_request / generate_orders (None on exhausted retries)
    constraints,    \* Constraints (None on exhausted retries)
    total,          \* split_int_quantity: total
    num_of_parts,   \* split_int_quantity: num_of_parts
    diff0,          \* split_int_quantity: diff as passed by the caller
    diff,           \* split_int_quantity: local diff (reassigned at lines 161-163)
    values,         \* split_int_quantity: values (cut points)
    ints,           \* list returned by split_int_quantity
    orders,         \* generate_orders: result
    next_uuid,      \* number of uuid.uuid4() calls made so far
    retries,        \* i of the running retry loop
    cur,            \* index (1-based) of the order process_request is placing
    sub_result,     \* CreationStatus returned by create_order_with_retries
    result,         \* CreationStatus accumulated by process_request
    placed,         \* exchange side: client order ids the exchange has accepted
    calls,          \* log of client.create_order calls: [k, id, outcome]
    terminal,       \* per order, in order: how create_order_with_retries returned
    added,          \* per order, in order: what line 209 added to actual_base_quantity
    avg_calls,      \* number of client.get_avg_price calls
    info_calls      \* number of client.get_symbol_info calls

vars == <<entry, pc, req, avg_price, constraints, total, num_of_parts, diff0, diff,
          values, ints, orders, next_uuid, retries, cur, sub_result, result,
          placed, calls, terminal, added, avg_calls, info_calls>>

splitVars == <<total, num_of_parts, diff0, diff, values, ints>>
genVars == <<req, avg_price, constraints, orders, next_uuid>>
placeVars == <<retries, cur, sub_result, result, placed, calls, terminal, added>>
fetchVars == <<avg_calls, info_calls>>

----------------------------------------------------------------------------
\* Bounds of the model

MaxTotal == 16
MaxParts == 4
MaxDiff == 5
MaxUsdVol == 8
MaxUsdDiff == 2
MaxSplits == 3
MaxProcessSplits == 2

----------------------------------------------------------------------------
\* Arithmetic helpers

\* A Python variable that may hold None: None is <<>>, a value v is <<v>>
None == <<>>
Some(v) == <<v>>

Abs(x) == IF x < 0 THEN -x ELSE x

Min(a, b) == IF a <= b THEN a ELSE b

\* Python int() of the fraction n/d: truncation toward zero
Trunc(n, d) ==
    LET q == Abs(n) \div Abs(d)
    IN  IF (n < 0) = (d < 0) THEN q ELSE -q

\* One unit of a price, a quantity or a step size is 1 / Scale
Scale == 10^8

\* floor(log10(n)) of an integer n >= 1
RECURSIVE FloorLog10(_)
FloorLog10(n) == IF n < 10 THEN 0 ELSE 1 + FloorLog10(n \div 10)

\* int(-math.log10(x)) of the float x = s / Scale, s > 0 (line 186)
IntNegLog10(s) ==
    IF s >= Scale THEN -FloorLog10(s \div Scale) ELSE FloorLog10(Scale \div s)

\* The values Python's round(x, ndigits) can give for x = v / Scale, v >= 0: the
\* nearest multiple of 10^-ndigits.  When v is exactly half way and x is a
\* binary fraction (v a multiple of 5^8) the double holds x exactly and round
\* goes to the even neighbour; half way otherwise, the error of the double
\* decides the direction, so both neighbours are possible.
RoundSet(v, ndigits) ==
    IF ndigits >= FloorLog10(Scale) THEN {v}
    ELSE LET unit == IF ndigits >= 0 THEN Scale \div 10^ndigits ELSE Scale * 10^(-ndigits)
             down == v - (v % unit)
         IN  IF 2 * (v % unit) < unit THEN {down}
             ELSE IF 2 * (v % unit) > unit THEN {down + unit}
             ELSE IF v % (5^8) = 0
                  THEN (IF (down \div unit) % 2 = 0 THEN {down} ELSE {down + unit})
                  ELSE {down, down + unit}

RECURSIVE SumSeq(_)
SumSeq(s) == IF s = <<>> THEN 0 ELSE Head(s) + SumSeq(Tail(s))

----------------------------------------------------------------------------
\* split_int_quantity (orders.py 158-172)

\* lines 160-163: diff = min(diff, int(step / 2)), then made even; step = t / p
ClampDiffUnclamped(t, p, d) == IF d % 2 = 1 THEN d - 1 ELSE d
ClampDiffKeepsOdd(t, p, d) == Min(d, Trunc(t, 2 * p))
ClampDiff(t, p, d) ==
    LET d1 == Min(d, Trunc(t, 2 * p))
    IN  IF d1 % 2 = 1 THEN d1 - 1 ELSE d1

\* line 167: int(min_v), min_v = step * i - diff / 2.  =  (2ti - dp) / 2p
IntMinVWide(t, p, d, i) == Trunc(t * i - d * p, p)
IntMinV(t, p, d, i) == Trunc(2 * t * i - d * p, 2 * p)

\* line 168: int(max_v), max_v = step * i + diff / 2.
IntMaxVWide(t, p, d, i) == Trunc(t * i + d * p, p)
IntMaxVPlusOne(t, p, d, i) == Trunc(2 * t * i + d * p, 2 * p) + 1
IntMaxV(t, p, d, i) == Trunc(2 * t * i + d * p, 2 * p)

\* line 171: [values[i] - values[i - 1] for i in range(1, len(values))]
DifferencesShort(v) == [i \in 1..(Len(v) - 2) |-> v[i + 1] - v[i]]
Differences(v) == [i \in 1..(Len(v) - 1) |-> v[i + 1] - v[i]]

\* where control goes when split_int_quantity returns
AfterSplit == IF entry = "split" THEN "done" ELSE "gen_loop"

\* line 159 fails: AssertionError
SplitAssertFails ==
    /\ pc = "split"
    /\ ~(total >= num_of_parts)
    /\ pc' = "raised"
    /\ UNCHANGED <<entry, splitVars, genVars, placeVars, fetchVars>>

\* line 160 with num_of_parts = 0: ZeroDivisionError
SplitDivisionByZero ==
    /\ pc = "split"
    /\ total >= num_of_parts
    /\ num_of_parts = 0
    /\ pc' = "raised"
    /\ UNCHANGED <<entry, splitVars, genVars, placeVars, fetchVars>>

\* lines 159-165
SplitEnter ==
    /\ pc = "split"
    /\ total >= num_of_parts
    /\ num_of_parts # 0
    /\ diff' = ClampDiff(total, num_of_parts, diff0)
    /\ values' = <<0>>
    /\ pc' = "split_loop"
    /\ UNCHANGED <<entry, total, num_of_parts, diff0, ints, genVars, placeVars, fetchVars>>

\* lines 166-169: one iteration, i = len(values)
SplitDraw ==
    /\ pc = "split_loop"
    /\ Len(values) < num_of_parts
    /\ LET i == Len(values)
       IN  \E v \in IntMinV(total, num_of_parts, diff, i)..IntMaxV(total, num_of_parts, diff, i) :
               values' = Append(values, v)
    /\ UNCHANGED <<entry, pc, total, num_of_parts, diff0, diff, ints, genVars, placeVars, fetchVars>>

\* lines 170-172
SplitReturn ==
    /\ pc = "split_loop"
    /\ ~(Len(values) < num_of_parts)
    /\ values' = Append(values, total)
    /\ ints' = Differences(values')
    /\ pc' = AfterSplit
    /\ UNCHANGED <<entry, total, num_of_parts, diff0, diff, genVars, placeVars, fetchVars>>

SplitNext == SplitAssertFails \/ SplitEnter \/ SplitDraw \/ SplitReturn

----------------------------------------------------------------------------
\* generate_orders (orders.py 175-196)
\* usd_vol, usd_diff and avg_price are whole numbers of the quote currency;
\* prices, quantities and step sizes count units of 1 / Scale.

\* line 178 / 180: int(usd / avg_price / quantity_step_size)
IntBaseQuantity(usd, price, c) ==
    Trunc(usd * Scale, price * c.quantity_step_size)

\* line 183 / 184: int(price / price_step_size)
IntPrice(price, c) == Trunc(price, c.price_step_size)

\* line 186: the ndigits of the price rounding
PriceDigits(c) == IntNegLog10(c.price_step_size) + 2

\* line 190: str(uuid.uuid4()); uuid4 is taken never to repeat a value, the
\* n-th call of a run is modelled by n
OrderId(n) == n

\* lines 188-194
MakeOrderAlwaysSell(r, id, quantity, price) ==
    [order_id |-> id, symbol |-> r.symbol, time_in_force |-> "GTC",
     quantity |-> quantity, price |-> price, side |-> "SELL", type |-> "LIMIT"]
MakeOrder(r, id, quantity, price) ==
    [order_id |-> id, symbol |-> r.symbol, time_in_force |-> "GTC",
     quantity |-> quantity, price |-> price, side |-> r.side, type |-> "LIMIT"]

\* where control goes when generate_orders returns
AfterGenerate == IF entry = "generate" THEN "done" ELSE "place_loop"

\* lines 176-181, up to the call of split_int_quantity
GenerateEnterLenient ==
    /\ pc = "generate"
    /\ orders' = <<>>
    /\ LET known == avg_price # None /\ constraints # None
       IN  /\ total' = IF known
                       THEN IntBaseQuantity(req.usd_vol, avg_price[1], constraints[1])
                       ELSE req.splits
           /\ diff0' = IF known
                       THEN IntBaseQuantity(req.usd_diff, avg_price[1], constraints[1])
                       ELSE 0
    /\ num_of_parts' = req.splits
    /\ diff' = diff0'
    /\ values' = <<>> /\ ints' = <<>>
    /\ pc' = "split"
    /\ UNCHANGED <<entry, req, avg_price, constraints, next_uuid, placeVars, fetchVars>>
GenerateEnter ==
    /\ pc = "generate"
    /\ avg_price # None /\ constraints # None
    /\ orders' = <<>>
    /\ total' = IntBaseQuantity(req.usd_vol, avg_price[1], constraints[1])
    /\ num_of_parts' = req.splits
    /\ diff0' = IntBaseQuantity(req.usd_diff, avg_price[1], constraints[1])
    /\ diff' = diff0'
    /\ values' = <<>> /\ ints' = <<>>
    /\ pc' = "split"
    /\ UNCHANGED <<entry, req, avg_price, constraints, next_uuid, placeVars, fetchVars>>

\* lines 181-195: one iteration of the loop over the split quantities
GenerateOrder ==
    /\ pc = "gen_loop"
    /\ Len(orders) < Len(ints)
    /\ LET c == constraints[1]
           int_quantity == ints[Len(orders) + 1]
           int_min_price == IntPrice(req.min_price, c)
           int_max_price == IntPrice(req.max_price, c)
       IN  \E quantity \in RoundSet(int_quantity * c.quantity_step_size, c.quantity_precision) :
           \E int_price \in int_min_price..int_max_price :
           \E price \in RoundSet(int_price * c.price_step_size, PriceDigits(c)) :
               orders' = Append(orders, MakeOrder(req, OrderId(next_uuid + 1), quantity, price))
    /\ next_uuid' = next_uuid + 1
    /\ UNCHANGED <<entry, pc, req, avg_price, constraints, splitVars, placeVars, fetchVars>>

\* line 185 with int_min_price > int_max_price: random.randint raises ValueError
GenerateOrderRaises ==
    /\ pc = "gen_loop"
    /\ Len(orders) < Len(ints)
    /\ IntPrice(req.min_price, constraints[1]) > IntPrice(req.max_price, constraints[1])
    /\ pc' = "raised"
    /\ UNCHANGED <<entry, splitVars, genVars, placeVars, fetchVars>>

\* line 196
GenerateReturnInsideLoop ==
    /\ pc = "gen_loop"
    /\ Len(orders) >= 1
    /\ pc' = AfterGenerate
    /\ UNCHANGED <<entry, splitVars, genVars, placeVars, fetchVars>>
GenerateReturn ==
    /\ pc = "gen_loop"
    /\ ~(Len(orders) < Len(ints))
    /\ pc' = AfterGenerate
    /\ UNCHANGED <<entry, splitVars, genVars, placeVars, fetchVars>>

GenerateNext == GenerateEnter \/ SplitNext \/ GenerateOrder \/ GenerateReturn

----------------------------------------------------------------------------
\* CreationStatus.is_ok (orders.py 56-69)

\* line 56: tolerance=1e-8, in units of 1 / Scale
Tolerance == Scale \div 10^8

\* lines 56-57
FuzzyEquals(a, b) == Abs(a - b) <= Tolerance

\* lines 68-69
IsOk(status) == FuzzyEquals(status.requested_base_quantity, status.actual_base_quantity)

----------------------------------------------------------------------------
\* Retry wrappers around the exchange client (orders.py 86-150)

MAX_RETRIES == 3

\* for i in range(MAX_RETRIES): the body runs for i
LoopRunsOnceMore(i) == i <= 3
LoopRunsTwiceMore(i) == i <= MAX_RETRIES + 1
LoopRuns(i) == i < MAX_RETRIES

\* line 101
PlacedStatus(order) ==
    [requested_base_quantity |-> order.quantity, actual_base_quantity |-> order.quantity]

\* line 106
DuplicateStatusAsFailure(order) ==
    [requested_base_quantity |-> order.quantity, actual_base_quantity |-> 0]
DuplicateStatus(order) ==
    [requested_base_quantity |-> order.quantity, actual_base_quantity |-> order.quantity]

\* line 111
GaveUpStatusNothingRequested(order) ==
    [requested_base_quantity |-> 0, actual_base_quantity |-> 0]
GaveUpStatus(order) ==
    [requested_base_quantity |-> order.quantity, actual_base_quantity |-> 0]

\* line 94: newClientOrderId of attempt i for an order
ClientOrderIdPerAttempt(order, i) == order.order_id * 10 + i
ClientOrderId(order, i) == order.order_id

\* line 135: the Constraints get_symbol_info_with_retries starts from
\* (8, 0.000001, 0.01)
DefaultConstraints ==
    [quantity_precision |-> 8, quantity_step_size |-> 100, price_step_size |-> 10^6]

\* lines 135-147: info is None (a falsy answer) or Some(d), d holding for each of
\* baseAssetPrecision, stepSize (of LOT_SIZE) and tickSize (of PRICE_FILTER)
\* None when absent and Some(value) when present
ExtractConstraints(info) ==
    IF info = None THEN DefaultConstraints
    ELSE LET d == info[1]
         IN  [quantity_precision |->
                  IF d.baseAssetPrecision # None THEN d.baseAssetPrecision[1]
                  ELSE DefaultConstraints.quantity_precision,
              quantity_step_size |->
                  IF d.stepSize # None THEN d.stepSize[1]
                  ELSE DefaultConstraints.quantity_step_size,
              price_step_size |->
                  IF d.tickSize # None THEN d.tickSize[1]
                  ELSE DefaultConstraints.price_step_size]

\* What the exchange answers in the model, by symbol.  "XUSDT" is a market
\* with an average price of 10^8 and a LOT_SIZE of 0.00000001.
AvgPrices == IF req.symbol = "XUSDT" THEN {10^8} ELSE {2}

\* "XUSDT": precision 8, LOT_SIZE 0.00000001.  Otherwise: no answer; LOT_SIZE
\* 0.5 only; precision 8, LOT_SIZE 0.5, PRICE_FILTER 0.125
SymbolInfos ==
    IF req.symbol = "XUSDT"
    THEN {Some([baseAssetPrecision |-> Some(8), stepSize |-> Some(1), tickSize |-> None])}
    ELSE {None,
          Some([baseAssetPrecision |-> None, stepSize |-> Some(50 * 10^6), tickSize |-> None]),
          Some([baseAssetPrecision |-> Some(8), stepSize |-> Some(50 * 10^6),
                tickSize |-> Some(125 * 10^5)])}

\* lines 117-122: client.get_avg_price answers
AvgPriceOk ==
    /\ pc = "avg_price"
    /\ LoopRuns(retries)
    /\ \E p \in AvgPrices : avg_price' = Some(p)
    /\ avg_calls' = avg_calls + 1
    /\ retries' = 0
    /\ pc' = "symbol_info"
    /\ UNCHANGED <<entry, req, constraints, orders, next_uuid, splitVars, cur, sub_result,
                   result, placed, calls, terminal, added, info_calls>>

\* lines 117-125: the call or the parsing of its answer raises
AvgPriceFails ==
    /\ pc = "avg_price"
    /\ LoopRuns(retries)
    /\ avg_calls' = avg_calls + 1
    /\ retries' = retries + 1
    /\ UNCHANGED <<entry, pc, genVars, splitVars, cur, sub_result,
                   result, placed, calls, terminal, added, info_calls>>

\* line 117 exhausted: the function falls off its end and returns None (line 203)
AvgPriceGiveUp ==
    /\ pc = "avg_price"
    /\ ~LoopRuns(retries)
    /\ avg_price' = None
    /\ retries' = 0
    /\ pc' = "symbol_info"
    /\ UNCHANGED <<entry, req, constraints, orders, next_uuid, splitVars, cur, sub_result,
                   result, placed, calls, terminal, added, fetchVars>>

\* lines 131-147: client.get_symbol_info answers
SymbolInfoOk ==
    /\ pc = "symbol_info"
    /\ LoopRuns(retries)
    /\ \E info \in SymbolInfos : constraints' = Some(ExtractConstraints(info))
    /\ info_calls' = info_calls + 1
    /\ retries' = 0
    /\ pc' = "generate"
    /\ UNCHANGED <<entry, req, avg_price, orders, next_uuid, splitVars, cur, sub_result,
                   result, placed, calls, terminal, added, avg_calls>>

\* lines 131-150: the call or the parsing of its answer raises
SymbolInfoFails ==
    /\ pc = "symbol_info"
    /\ LoopRuns(retries)
    /\ info_calls' = info_calls + 1
    /\ retries' = retries + 1
    /\ UNCHANGED <<entry, pc, genVars, splitVars, cur, sub_result,
                   result, placed, calls, terminal, added, avg_calls>>

\* line 131 exhausted: returns None (line 204); line 206 follows
SymbolInfoGiveUp ==
    /\ pc = "symbol_info"
    /\ ~LoopRuns(retries)
    /\ constraints' = None
    /\ retries' = 0
    /\ pc' = "generate"
    /\ UNCHANGED <<entry, req, avg_price, orders, next_uuid, splitVars, cur, sub_result,
                   result, placed, calls, terminal, added, fetchVars>>

\* line 177 with avg_price None (TypeError) or line 178 with constraints None
\* (AttributeError): generate_orders raises and process_request with it
GenerateRaises ==
    /\ pc = "generate"
    /\ (avg_price = None \/ constraints = None)
    /\ pc' = "raised"
    /\ UNCHANGED <<entry, splitVars, genVars, placeVars, fetchVars>>

\* line 207: the next order of the list, and line 88-90
PlaceNextOrder ==
    /\ pc = "place_loop"
    /\ cur < Len(orders)
    /\ cur' = cur + 1
    /\ retries' = 0
    /\ pc' = "create_order"
    /\ UNCHANGED <<entry, splitVars, genVars, sub_result, result, placed, calls,
                   terminal, added, fetchVars>>

\* lines 93-101: the exchange accepts the order and the call returns
CreateOrderOk ==
    /\ pc = "create_order"
    /\ LoopRuns(retries)
    /\ LET order == orders[cur]
           id == ClientOrderId(order, retries)
       IN  /\ id \notin placed
           /\ placed' = placed \cup {id}
           /\ calls' = Append(calls, [k |-> cur, order_id |-> id, outcome |-> "success"])
           /\ sub_result' = PlacedStatus(order)
    /\ terminal' = Append(terminal, "SUCCEEDED")
    /\ pc' = "accumulate"
    /\ UNCHANGED <<entry, splitVars, genVars, retries, cur, result, added, fetchVars>>

\* lines 103-106: the exchange knows the client order id already
CreateOrderDuplicate ==
    /\ pc = "create_order"
    /\ LoopRuns(retries)
    /\ LET order == orders[cur]
           id == ClientOrderId(order, retries)
       IN  /\ id \in placed
           /\ calls' = Append(calls, [k |-> cur, order_id |-> id, outcome |-> "duplicate"])
           /\ sub_result' = DuplicateStatus(order)
    /\ terminal' = Append(terminal, "DUPLICATE")
    /\ pc' = "accumulate"
    /\ UNCHANGED <<entry, splitVars, genVars, retries, cur, result, placed, added, fetchVars>>

\* lines 103-110: the call raises anything else; the exchange may or may not
\* have accepted the order before the failure (a lost answer)
CreateOrderFails ==
    /\ pc = "create_order"
    /\ LoopRuns(retries)
    /\ LET order == orders[cur]
           id == ClientOrderId(order, retries)
       IN  /\ \E lands \in BOOLEAN : placed' = IF lands THEN placed \cup {id} ELSE placed
           /\ calls' = Append(calls, [k |-> cur, order_id |-> id, outcome |-> "failure"])
    /\ retries' = retries + 1
    /\ UNCHANGED <<entry, pc, splitVars, genVars, cur, sub_result, result, terminal,
                   added, fetchVars>>

\* line 91 exhausted, line 111
CreateOrderGiveUp ==
    /\ pc = "create_order"
    /\ ~LoopRuns(retries)
    /\ sub_result' = GaveUpStatus(orders[cur])
    /\ terminal' = Append(terminal, "GAVE_UP")
    /\ pc' = "accumulate"
    /\ UNCHANGED <<entry, splitVars, genVars, retries, cur, result, placed, calls,
                   added, fetchVars>>

\* lines 209-210
Accumulate ==
    /\ pc = "accumulate"
    /\ result' = [requested_base_quantity |->
                      result.requested_base_quantity + sub_result.requested_base_quantity,
                  actual_base_quantity |->
                      result.actual_base_quantity + sub_result.actual_base_quantity]
    /\ added' = Append(added, sub_result.actual_base_quantity)
    /\ pc' = "place_loop"
    /\ UNCHANGED <<entry, splitVars, genVars, retries, cur, sub_result, placed, calls,
                   terminal, fetchVars>>

\* line 207 exhausted, lines 212-213
ProcessReturn ==
    /\ pc = "place_loop"
    /\ ~(cur < Len(orders))
    /\ pc' = "done"
    /\ UNCHANGED <<entry, splitVars, genVars, placeVars, fetchVars>>

ProcessNext ==
    \/ AvgPriceOk \/ AvgPriceFails \/ AvgPriceGiveUp
    \/ SymbolInfoOk \/ SymbolInfoFails \/ SymbolInfoGiveUp
    \/ GenerateRaises \/ GenerateNext
    \/ PlaceNextOrder
    \/ CreateOrderOk \/ CreateOrderDuplicate \/ CreateOrderFails \/ CreateOrderGiveUp
    \/ Accumulate \/ ProcessReturn

----------------------------------------------------------------------------
\* Idle values of the state a behaviour does not use

NoStatus == [requested_base_quantity |-> 0, actual_base_quantity |-> 0]

IdleSplit ==
    /\ total = 0 /\ num_of_parts = 0 /\ diff0 = 0 /\ diff = 0
    /\ values = <<>> /\ ints = <<>>

IdleGen ==
    /\ req = None /\ avg_price = None /\ constraints = None
    /\ orders = <<>> /\ next_uuid = 0

IdlePlace ==
    /\ retries = 0 /\ cur = 0 /\ sub_result = None /\ result = NoStatus
    /\ placed = {} /\ calls = <<>> /\ terminal = <<>> /\ added = <<>>

IdleFetch == avg_calls = 0 /\ info_calls = 0

----------------------------------------------------------------------------
\* split_int_quantity called on its own with every argument triple in the bounds

InitSplit ==
    /\ entry = "split"
    /\ pc = "split"
    /\ total \in 1..MaxTotal
    /\ num_of_parts \in 1..MaxParts
    /\ diff0 \in 0..MaxDiff
    /\ diff = diff0
    /\ values = <<>>
    /\ ints = <<>>
    /\ IdleGen /\ IdlePlace /\ IdleFetch

SpecSplit == InitSplit /\ [][SplitNext]_vars

----------------------------------------------------------------------------
\* generate_orders called on its own

Sides == {"SELL", "BUY"}

\* [min_price, max_price] pairs: 2.00 .. 2.15 and 2.00 .. 2.25
PriceRanges == {<<200 * 10^6, 215 * 10^6>>, <<200 * 10^6, 225 * 10^6>>}

Requests(vols, diffs, splits, sides, ranges) ==
    {[symbol |-> "BTCUSDT", usd_vol |-> v, usd_diff |-> d, splits |-> n, side |-> sd,
      min_price |-> r[1], max_price |-> r[2]] :
        v \in vols, d \in diffs, n \in splits, sd \in sides, r \in ranges}

\* quantity steps 0.25 and 0.5, price steps 0.07 and 0.125
ConstraintsSet(precisions) ==
    {[quantity_precision |-> qp, quantity_step_size |-> qs, price_step_size |-> ps] :
        qp \in precisions, qs \in {25 * 10^6, 50 * 10^6}, ps \in {7 * 10^6, 125 * 10^5}}

InitGenerate ==
    /\ entry = "generate"
    /\ pc = "generate"
    /\ req \in {r \in Requests(1..MaxUsdVol, 0..MaxUsdDiff, 1..MaxSplits, Sides, PriceRanges) :
                    r.usd_diff <= r.usd_vol}
    /\ avg_price = Some(2)
    /\ constraints \in {Some(c) : c \in ConstraintsSet({0, 1, 8})}
    /\ orders = <<>>
    /\ next_uuid = 0
    /\ IdleSplit /\ IdlePlace /\ IdleFetch

SpecGenerate == InitGenerate /\ [][GenerateNext]_vars

----------------------------------------------------------------------------
\* process_request (orders.py 202-213)

Init ==
    /\ entry = "process"
    /\ pc = "avg_price"
    /\ \E r \in Requests({1, 2}, {0}, 1..MaxProcessSplits, Sides, {<<200 * 10^6, 200 * 10^6>>}) :
           req \in {r, [r EXCEPT !.symbol = "XUSDT"]}
    /\ avg_price = None
    /\ constraints = None
    /\ orders = <<>>
    /\ next_uuid = 0
    /\ IdleSplit /\ IdlePlace /\ IdleFetch

Next == ProcessNext

Spec == Init /\ [][Next]_vars

\* Every external call returns, with an answer or an exception, and the
\* interpreter keeps running: a step that can be taken is taken
SpecFair == Spec /\ WF_vars(Next)

----------------------------------------------------------------------------
\* process_request called with a Request that is not well formed: splits <= 0,
\* or min_price > max_price (2.25 .. 2.00 and 2.0625 .. 2.00)

MalformedRequests ==
    Requests({1, 2}, {0}, {-1, 0}, Sides, {<<200 * 10^6, 200 * 10^6>>})
        \cup Requests({1, 2}, {0}, 1..MaxProcessSplits, Sides,
                      {<<225 * 10^6, 200 * 10^6>>, <<20625 * 10^4, 200 * 10^6>>})

InitMalformed ==
    /\ entry = "process"
    /\ pc = "avg_price"
    /\ req \in MalformedRequests
    /\ avg_price = None
    /\ constraints = None
    /\ orders = <<>>
    /\ next_uuid = 0
    /\ IdleSplit /\ IdlePlace /\ IdleFetch

MalformedNext == ProcessNext \/ SplitDivisionByZero \/ GenerateOrderRaises

SpecMalformed == InitMalformed /\ [][MalformedNext]_vars

----------------------------------------------------------------------------
\* Claims about split_int_quantity, checked under SpecSplit

\* split_int_quantity has returned to its caller
SplitReturned == entry = "split" /\ pc = "done"

\* C1: whenever split_int_quantity(total, parts, diff) returns, whatever the
\* random draws were, the list has exactly `parts` entries and they sum to
\* `total`; with parts = 1 the list is [total].
C1_LengthAndSum ==
    SplitReturned =>
        /\ Len(ints) = num_of_parts
        /\ SumSeq(ints) = total
        /\ (num_of_parts = 1 => ints = <<total>>)

\* C1 witness: a three-part split whose two interior cuts were both moved off
\* their ideal positions floor(13/3) = 4 and floor(26/3) = 8 has returned.
C1_Witness ==
    /\ SplitReturned
    /\ total = 13 /\ num_of_parts = 3 /\ diff = 2
    /\ values = <<0, 3, 9, 13>>
    /\ ints = <<3, 6, 4>>

\* C2: every returned entry is >= 1, i.e. the cut points 0, c_1, ..., total
\* are strictly increasing, for every draw, also when total = parts and when
\* diff is far larger than total / parts.
C2_EntriesPositive ==
    SplitReturned =>
        /\ \A i \in 1..Len(ints) : ints[i] >= 1
        /\ \A i \in 1..(Len(values) - 1) : values[i] < values[i + 1]

\* C2 witness: total = parts with a caller diff larger than total / parts
\* (clamped to 0) has returned all ones.
C2_Witness ==
    /\ SplitReturned
    /\ total = num_of_parts /\ num_of_parts = MaxParts
    /\ diff0 = MaxDiff /\ diff0 > 1
    /\ \A i \in 1..Len(ints) : ints[i] = 1

\* C3: every returned entry e satisfies |trunc(e - total/parts)| <= diff,
\* with diff the caller's unclamped argument (tests.py line 13).
\* e - total/parts = (e * parts - total) / parts.
C3_TruncatedDeviation ==
    SplitReturned =>
        \A i \in 1..Len(ints) :
            Abs(Trunc(ints[i] * num_of_parts - total, num_of_parts)) <= diff0

\* C3 witness: a returned entry whose real deviation from total/parts exceeds
\* the caller's diff (>= 2) and whose truncated deviation equals it.
C3_Witness ==
    /\ SplitReturned
    /\ diff0 >= 2
    /\ \E i \in 1..Len(ints) :
           /\ Abs(Trunc(ints[i] * num_of_parts - total, num_of_parts)) = diff0
           /\ Abs(ints[i] * num_of_parts - total) > diff0 * num_of_parts

\* C4 as stated: no returned entry deviates from the exact real total/parts
\* by more than diff: |e - total/parts| <= diff.
C4_ExactDeviation ==
    SplitReturned =>
        \A i \in 1..Len(ints) :
            Abs(ints[i] * num_of_parts - total) <= diff0 * num_of_parts

\* C4 amended: every returned entry deviates from the exact real total/parts
\* by less than diff + 1: |e - total/parts| < diff + 1.
C4_DeviationBelowDiffPlusOne ==
    SplitReturned =>
        \A i \in 1..Len(ints) :
            Abs(ints[i] * num_of_parts - total) < (diff0 + 1) * num_of_parts

\* C4 witness: diff = 0 with total not divisible by parts has returned, and
\* its final entry is off the real total/parts by more than 0.
C4_Witness ==
    /\ SplitReturned
    /\ diff0 = 0
    /\ total % num_of_parts # 0
    /\ Abs(ints[Len(ints)] * num_of_parts - total) > 0

----------------------------------------------------------------------------
\* Claims about create_order_with_retries and process_request, checked under Spec

\* the positions in the call log of the create_order calls made for order k
CallsOf(k) == {j \in 1..Len(calls) : calls[j].k = k}

\* the quantities of the orders 1..n whose terminal state is in `states`
RECURSIVE QuantityIn(_, _)
QuantityIn(n, states) ==
    IF n = 0 THEN 0
    ELSE QuantityIn(n - 1, states)
         + (IF terminal[n] \in states THEN orders[n].quantity ELSE 0)

\* C5: across all its attempts an order adds its quantity to
\* actual_base_quantity at most once: one addition per order, of 0 or of its
\* quantity, and actual_base_quantity is the sum of these additions; an order
\* answered with "Duplicate order sent." adds exactly its quantity, and that
\* answer is the last call made for the order.
C5_CountedAtMostOnce ==
    /\ Len(added) <= Len(terminal) /\ Len(terminal) <= Len(orders)
    /\ result.actual_base_quantity = SumSeq(added)
    /\ \A k \in 1..Len(added) :
           /\ added[k] \in {0, orders[k].quantity}
           /\ (terminal[k] = "DUPLICATE" => added[k] = orders[k].quantity)
    /\ \A j \in 1..Len(calls) :
           calls[j].outcome = "duplicate" =>
               \A j2 \in (j + 1)..Len(calls) : calls[j2].k # calls[j].k

\* C5 witness: an order whose first attempt failed although the exchange had
\* accepted it, whose retry was answered as a duplicate, has been accumulated
\* with its (positive) quantity.
C5_Witness ==
    \E k \in 1..Len(added) :
        /\ terminal[k] = "DUPLICATE"
        /\ orders[k].quantity > 0
        /\ added[k] = orders[k].quantity
        /\ \E j \in CallsOf(k) : calls[j].outcome = "failure"
        /\ \E j \in CallsOf(k) : calls[j].outcome = "duplicate"

\* C6: for each order that reached a terminal state create_order was called
\* at least once and at most 3 times; no call follows, for the same order, a
\* call that returned success or a duplicate answer; GAVE_UP is reached only
\* after exactly 3 calls that each failed without a duplicate answer.  The
\* order in progress has had at most 3 calls too.
C6_RetryStateMachine ==
    /\ \A k \in 1..Len(orders) : Cardinality(CallsOf(k)) <= 3
    /\ \A k \in 1..Len(terminal) :
           /\ Cardinality(CallsOf(k)) >= 1
           /\ (terminal[k] = "GAVE_UP" =>
                   /\ Cardinality(CallsOf(k)) = 3
                   /\ \A j \in CallsOf(k) : calls[j].outcome = "failure")
    /\ \A j \in 1..Len(calls) :
           calls[j].outcome \in {"success", "duplicate"} =>
               \A j2 \in (j + 1)..Len(calls) : calls[j2].k # calls[j].k

\* C6 witness: an order has given up after three failed calls.
C6_Witness ==
    \E k \in 1..Len(terminal) :
        /\ terminal[k] = "GAVE_UP"
        /\ Cardinality(CallsOf(k)) = 3

\* C7: when process_request returns, requested_base_quantity is the sum of the
\* quantities of all generated orders (every order reached a terminal state),
\* actual_base_quantity is the sum of the quantities of the orders that ended
\* in success or duplicate, and actual <= requested.
C7_Aggregate ==
    (entry = "process" /\ pc = "done") =>
        /\ Len(terminal) = Len(orders)
        /\ result.requested_base_quantity
               = QuantityIn(Len(orders), {"SUCCEEDED", "DUPLICATE", "GAVE_UP"})
        /\ result.actual_base_quantity = QuantityIn(Len(orders), {"SUCCEEDED", "DUPLICATE"})
        /\ result.actual_base_quantity <= result.requested_base_quantity

\* C7 witness: process_request has returned after its first order gave up and
\* a later order succeeded; requested counts both, actual only the second.
C7_Witness ==
    /\ entry = "process" /\ pc = "done"
    /\ Len(orders) >= 2
    /\ terminal[1] = "GAVE_UP" /\ terminal[2] = "SUCCEEDED"
    /\ orders[1].quantity > 0
    /\ result.requested_base_quantity = orders[1].quantity + orders[2].quantity
    /\ result.actual_base_quantity = orders[2].quantity

\* C8: two create_order calls of a run carry the same newClientOrderId if and
\* only if they are attempts for the same generated order.
C8_IdempotencyKeys ==
    \A i, j \in 1..Len(calls) :
        (calls[i].order_id = calls[j].order_id) <=> (calls[i].k = calls[j].k)

\* C8 witness: two different orders have each been attempted at least twice.
C8_Witness ==
    \E k1, k2 \in 1..Len(orders) :
        /\ k1 # k2
        /\ Cardinality(CallsOf(k1)) >= 2
        /\ Cardinality(CallsOf(k2)) >= 2

----------------------------------------------------------------------------
\* Claims about generate_orders, checked under SpecGenerate

GenerateReturned == entry = "generate" /\ pc = "done"

\* C9: every order produced by generate_orders has a price p with
\* min_price <= p <= max_price, for every draw of the step count.
C9_PricesInRange ==
    \A k \in 1..Len(orders) :
        /\ req.min_price <= orders[k].price
        /\ orders[k].price <= req.max_price

\* C10: when generation succeeds every order has a quantity that is strictly
\* positive and an exact multiple of quantity_step_size, and a price that is
\* an exact multiple of price_step_size, after the rounding of lines 182 and 186.
C10_ExactMultiples ==
    GenerateReturned =>
        \A k \in 1..Len(orders) :
            /\ orders[k].quantity > 0
            /\ orders[k].quantity % constraints[1].quantity_step_size = 0
            /\ orders[k].price % constraints[1].price_step_size = 0

\* the quantities of a list of orders, summed
RECURSIVE SumQuantity(_)
SumQuantity(os) == IF os = <<>> THEN 0 ELSE Head(os).quantity + SumQuantity(Tail(os))

\* C11: when generation succeeds the sum of the order quantities differs from
\* the requested base quantity usd_vol / avg_price by at most one
\* quantity_step_size.  In units of 1 / Scale, times avg_price:
\* |sum * avg_price - usd_vol * Scale| <= quantity_step_size * avg_price.
C11_SumWithinOneStep ==
    GenerateReturned =>
        Abs(SumQuantity(orders) * avg_price[1] - req.usd_vol * Scale)
            <= constraints[1].quantity_step_size * avg_price[1]

\* C12: for a request with quantized total >= splits, generate_orders returns
\* exactly req.splits orders, each with the request's symbol and side,
\* time_in_force "GTC" and type "LIMIT".
C12_OrderCountAndFields ==
    GenerateReturned =>
        /\ Len(orders) = req.splits
        /\ \A k \in 1..Len(orders) :
               /\ orders[k].symbol = req.symbol
               /\ orders[k].side = req.side
               /\ orders[k].time_in_force = "GTC"
               /\ orders[k].type = "LIMIT"

\* C12 witness: generate_orders has returned three BUY orders.
C12_Witness ==
    /\ GenerateReturned
    /\ req.splits = 3 /\ req.side = "BUY"
    /\ Len(orders) = 3
    /\ \A k \in 1..3 : orders[k].side = "BUY" /\ orders[k].quantity > 0

----------------------------------------------------------------------------
\* More claims about process_request, checked under Spec

ProcessReturned == entry = "process" /\ pc = "done"

\* C13: the CreationStatus returned by process_request satisfies is_ok() if
\* and only if no generated order ended in GAVE_UP, for every positive order
\* quantity, also one at or below the 1e-8 tolerance.
C13_IsOkIffNoGiveUp ==
    ProcessReturned =>
        (IsOk(result) <=> \A k \in 1..Len(terminal) : terminal[k] # "GAVE_UP")
\* get_avg_price_with_retries / get_symbol_info_with_retries used up their
\* attempts without an answer
AvgExhausted == entry = "process" /\ pc # "avg_price" /\ avg_price = None
InfoExhausted == entry = "process" /\ pc \notin {"avg_price", "symbol_info"} /\ constraints = None

\* C14: once the average-price retrieval or the constraints retrieval has
\* failed on all 3 attempts, process_request never returns normally: it is on
\* its way to raise or has raised, no order is generated and no create_order
\* call is made.
C14_ExhaustedRetrievalIsFatal ==
    (AvgExhausted \/ InfoExhausted) =>
        /\ pc \in {"symbol_info", "generate", "raised"}
        /\ orders = <<>> /\ next_uuid = 0
        /\ calls = <<>> /\ placed = {}

\* process_request has raised after either retrieval used up its 3 attempts
C14_Witness ==
    /\ pc = "raised"
    /\ \/ AvgExhausted /\ avg_calls = MAX_RETRIES
       \/ InfoExhausted /\ info_calls = MAX_RETRIES /\ avg_price # None
    /\ orders = <<>> /\ calls = <<>>
\* C15: each retrieval wrapper makes at most 3 attempts and stops at its first
\* success; when all 3 attempts fail the wrapper raises to its caller, so
\* process_request has raised and makes no external call after the exhausted
\* retrieval.
C15_ExhaustedRetrievalRaises ==
    /\ avg_calls <= MAX_RETRIES /\ info_calls <= MAX_RETRIES
    /\ AvgExhausted => (pc = "raised" /\ info_calls = 0 /\ calls = <<>>)
    /\ InfoExhausted => (pc = "raised" /\ calls = <<>>)
\* A Request the specification calls malformed
Malformed(r) == r.splits <= 0 \/ r.min_price > r.max_price

\* generate_orders has returned its list to process_request
OrdersReturned == entry = "process" /\ pc \in {"place_loop", "create_order", "accumulate", "done"}

\* C16: a malformed Request (splits <= 0 or min_price > max_price) is rejected:
\* generate_orders never returns a list of orders for it, process_request
\* never returns normally and no create_order call is made.
C16_MalformedRejected ==
    (entry = "process" /\ Malformed(req)) =>
        /\ ~OrdersReturned
        /\ calls = <<>> /\ placed = {}
----------------------------------------------------------------------------
\* More claims about split_int_quantity, checked under SpecSplit

\* The split whose i-th cut is floor(i * t / p)
EvenSplit(t, p) == [k \in 1..p |-> (k * t) \div p - ((k - 1) * t) \div p]

\* C17: for total >= parts >= 1, split_int_quantity(total, parts, 0) has one
\* possible result whatever the random source draws (every draw has a single
\* value to choose from), and every entry is floor(total / parts) or
\* ceil(total / parts), so two entries differ by at most 1.
C17_ZeroDiffDeterministic ==
    (entry = "split" /\ diff0 = 0 /\ total >= num_of_parts) =>
        /\ pc = "split_loop" =>
               \A i \in 1..(num_of_parts - 1) :
                   IntMinV(total, num_of_parts, diff, i) = IntMaxV(total, num_of_parts, diff, i)
        /\ pc = "done" =>
               /\ ints = EvenSplit(total, num_of_parts)
               /\ \A k \in 1..Len(ints) :
                      ints[k] \in {total \div num_of_parts,
                                   (total + num_of_parts - 1) \div num_of_parts}
               /\ \A j, k \in 1..Len(ints) : Abs(ints[j] - ints[k]) <= 1

\* C17 witness: split_int_quantity(10, 3, 0) has returned [3, 3, 4]
C17_Witness ==
    /\ SplitReturned
    /\ total = 10 /\ num_of_parts = 3 /\ diff0 = 0
    /\ ints = <<3, 3, 4>>
\* The largest even integer <= min(d, floor((t / p) / 2))
ClaimedDiff(t, p, d) ==
    LET m == Min(d, t \div (2 * p))
    IN  m - (m % 2)

\* Every list of cuts 0, c_1, ..., c_i that the loop of lines 166-169 can build
\* with the local diff d
RECURSIVE CutSeqs(_, _, _, _)
CutSeqs(t, p, d, i) ==
    IF i = 0
    THEN {<<0>>}
    ELSE {Append(s, v) : s \in CutSeqs(t, p, d, i - 1),
                         v \in IntMinV(t, p, d, i)..IntMaxV(t, p, d, i)}

\* Every result split_int_quantity(t, p, d0) can return
Results(t, p, d0) ==
    {Differences(Append(s, t)) : s \in CutSeqs(t, p, ClampDiff(t, p, d0), p - 1)}

----------------------------------------------------------------------------
\* Ordering and termination of process_request

\* C19: in process_request both retrievals and the generation of all orders
\* with their order_ids are complete before the first create_order call, and
\* placement is sequential in generation order: the calls are logged in
\* nondecreasing order number, each with the id its order got at generation,
\* and a call for order k is made only when orders 1..k-1 have reached a
\* terminal outcome.
C19_SequentialPlacement ==
    /\ pc \in {"avg_price", "symbol_info", "generate", "split", "split_loop", "gen_loop",
               "raised"} => calls = <<>>
    /\ calls # <<>> =>
           /\ avg_price # None /\ constraints # None
           /\ Len(orders) = req.splits
           /\ next_uuid = Len(orders)
           /\ \A k \in 1..Len(orders) : orders[k].order_id = OrderId(k)
    /\ \A i, j \in 1..Len(calls) : i < j => calls[i].k <= calls[j].k
    /\ \A j \in 1..Len(calls) :
           /\ calls[j].k \in 1..Len(orders)
           /\ calls[j].order_id = orders[calls[j].k].order_id
    /\ calls # <<>> => calls[Len(calls)].k <= Len(terminal) + 1
    /\ pc = "create_order" => (Len(terminal) = cur - 1 /\ \A j \in 1..Len(calls) : calls[j].k <= cur)

\* C19 witness: the first of two orders took two calls, then the second was
\* attempted
C19_Witness ==
    /\ entry = "process" /\ Len(orders) = 2
    /\ Len(calls) = 3
    /\ calls[1].k = 1 /\ calls[1].outcome = "failure"
    /\ calls[2].k = 1 /\ calls[2].outcome = "success"
    /\ calls[3].k = 2
    /\ terminal[1] = "SUCCEEDED"
\* C20: when every external call eventually returns, process_request
\* terminates (it returns or raises), and it never makes more than 3
\* average-price calls, 3 symbol-info calls and 3 * splits create_order calls.
C20_TerminatesWithinCallBudget ==
    /\ [](/\ avg_calls <= 3
          /\ info_calls <= 3
          /\ Len(calls) <= 3 * req.splits)
    /\ <>(pc \in {"done", "raised"})

\* C20 witness: process_request has returned after using its whole budget of
\* calls: two failures before each answer of the retrievals, and three failed
\* create_order calls for each of two orders
C20_Witness ==
    /\ entry = "process" /\ pc = "done"
    /\ req.splits = 2
    /\ avg_calls = 3 /\ info_calls = 3
    /\ Len(calls) = 3 * req.splits
    /\ terminal = <<"GAVE_UP", "GAVE_UP">>

====
